---- MODULE Spec2Model ----
(***************************************************************************)
(* LinkControl (packages/block-editor/src/components/link-control) and the *)
(* server-side renderer of the core/query-total block, as state machines.  *)
(*                                                                         *)
(* JavaScript values are tagged records, so that undefined, strings and    *)
(* booleans can be compared with === and tested for truthiness the way the *)
(* component does.  A string is a sequence of one-character strings.       *)
(***************************************************************************)
EXTENDS Integers, Sequences, FiniteSets, TLC

\* ------------------------------------------------------------------ bounds
MaxUrls == 3
MaxTitleLen == 1
MaxFocusable == 2
MaxPage == 3
MaxPerPage == 3
MaxFound == 5

\* --------------------------------------------------------- JavaScript values
Undefined == [t |-> "undefined"]
Null == [t |-> "null"]
Str(s) == [t |-> "string", s |-> s]
Bool(b) == [t |-> "boolean", b |-> b]
Num(n) == [t |-> "number", n |-> n]
Obj(url, title, id) == [t |-> "object", url |-> url, title |-> title, id |-> id]

EmptyStr == Str(<< >>)

\* ToBoolean of a JavaScript value
Truthy(v) ==
    CASE v.t = "undefined" -> FALSE
      [] v.t = "null" -> FALSE
      [] v.t = "string" -> Len(v.s) > 0
      [] v.t = "boolean" -> v.b
      [] v.t = "number" -> v.n # 0
      [] OTHER -> TRUE

\* a || b
Or(a, b) == IF Truthy(a) THEN a ELSE b

\* o?.f  (a missing property reads as undefined: absent fields hold Undefined)
Get(o, f) == IF o.t = "object" THEN o[f] ELSE Undefined

IsSpace(c) == c = " "

RECURSIVE TrimStart(_)
TrimStart(s) == IF s # << >> /\ IsSpace(Head(s)) THEN TrimStart(Tail(s)) ELSE s

RECURSIVE TrimEnd(_)
TrimEnd(s) ==
    IF s # << >> /\ IsSpace(s[Len(s)]) THEN TrimEnd(SubSeq(s, 1, Len(s) - 1)) ELSE s

\* String.prototype.trim, through optional chaining: v?.trim()
Trim(v) == IF v.t = "string" THEN Str(TrimEnd(TrimStart(v.s))) ELSE Undefined

\* v?.length
Length(v) == IF v.t = "string" THEN Num(Len(v.s)) ELSE Undefined

\* v > 0, where undefined converts to NaN and NaN > 0 is false
GtZero(v) == v.t = "number" /\ v.n > 0

\* ------------------------------------------------------------------ domains
Strings(alphabet, n) == UNION { [1..k -> alphabet] : k \in 0..n }

Min(a, b) == IF a < b THEN a ELSE b

\* Representative URL texts: empty, blank, plain, padded.
UrlPool ==
    << << >>, <<" ">>, <<"a">>, <<" ", "a">>, <<" ", " ">>, <<"a", " ">>, <<"a", "a">> >>

UrlStrings == { Str(UrlPool[i]) : i \in 1..Min(MaxUrls, Len(UrlPool)) }
TitleStrings == { Str(s) : s \in Strings({"t"}, MaxTitleLen) }
\* Link values carry one more property, id, besides url and title.
LinkValues ==
    { Obj(u, ti, Num(1)) : u \in UrlStrings \cup {Undefined},
                           ti \in TitleStrings \cup {Undefined} }

\* Suggestions carry their own id and, possibly, their own title.
Suggestions == { Obj(Str(<<"a">>), ti, Num(2)) : ti \in { Undefined, Str(<<"s">>) } }

ForceFlags == { Undefined, Bool(TRUE), Bool(FALSE) }

\* DOM nodes: the wrapper div is node 0 and its focusable descendants are the
\* nodes 1, 2, ... in document order.
WrapperNode == 0

ErrorText == Str(<<"e", "r", "r">>)

\* -------------------------------------------------------------------- state
VARIABLES
    value,                    \* prop: the committed link value, or Undefined
    forceIsEditingLink,       \* prop: Undefined, Bool(TRUE) or Bool(FALSE)
    propInputValue,           \* prop inputValue, left at its default ''
    isMounting,               \* ref
    isEndingEditWithFocus,    \* ref
    isEditingLink,            \* useState
    internalUrlInputValue,    \* useInternalInputValue( value?.url || '' )
    internalTextInputValue,   \* useInternalInputValue( value?.title || '' )
    isCreatingPage,           \* useCreatePage
    createPageErrorMessage,   \* useCreatePage
    lastOp,                   \* the operation that produced this state
    onChangeCalls,            \* the arguments of the onChange calls it made
    onRemoveCalls,            \* the number of onRemove calls it made
    focusCalls,               \* the focus() calls its focus effect made
    query,                    \* query-total: the request
    output                    \* query-total: what the renderer returned for it

linkVars ==
    << value, forceIsEditingLink, propInputValue, isMounting,
       isEndingEditWithFocus, isEditingLink, internalUrlInputValue,
       internalTextInputValue, isCreatingPage, createPageErrorMessage,
       lastOp, onChangeCalls, onRemoveCalls, focusCalls >>

totalVars == << query, output >>

vars == << linkVars, totalVars >>

\* ------------------------------------------------------ LinkControl: render
\* Mutant: the initial state ignores forceIsEditingLink.
InitialIsEditingLink_unforced(force, v) == ~Truthy(v) \/ ~Truthy(Get(v, "url"))

\* The initial state of useState( ... ) for isEditingLink.
InitialIsEditingLink(force, v) ==
    IF force # Undefined
        THEN Truthy(force)
        ELSE ~Truthy(v) \/ ~Truthy(Get(v, "url"))

\* The arguments of the two useInternalInputValue calls.
UrlProp(v) == Or(Get(v, "url"), EmptyStr)
TitleProp(v) == Or(Get(v, "title"), EmptyStr)

\* Mutant: the draft is the initial state only and is never reset.
InternalInputValue_never(prevProp, nextProp, draft) == draft

\* useInternalInputValue: the draft is reset when the value passed in changes.
InternalInputValue(prevProp, nextProp, draft) ==
    IF nextProp # prevProp THEN nextProp ELSE draft

\* Mutant: the effect only ever switches editing on.
ForceEffect_onlyOn(force, editing) == IF Truthy(force) THEN TRUE ELSE editing

\* Body of the forceIsEditingLink effect: the next isEditingLink.
ForceEffect(force, editing) ==
    IF force # Undefined /\ force # Bool(editing) THEN Truthy(force) ELSE editing

\* focus.focusable.find( wrapperNode.current ), for n focusable descendants
FocusableFind(n) == [i \in 1..n |-> i]

\* Mutant: no fallback to the wrapper.
NextFocusTarget_noFallback(hasTextInput, n) == (IF hasTextInput THEN 1 ELSE 0) + 1

\* The node the focus effect focuses.
NextFocusTarget(hasTextInput, n) ==
    LET whichFocusTargetIndex == IF hasTextInput THEN 1 ELSE 0
        found == FocusableFind(n)
    IN  IF whichFocusTargetIndex + 1 \in DOMAIN found
            THEN found[whichFocusTargetIndex + 1]
            ELSE WrapperNode

currentUrlInputValue == Or(propInputValue, internalUrlInputValue)

currentInputIsEmpty == ~GtZero(Length(Trim(currentUrlInputValue)))

\* Mutant: the unlink control stays while editing.
ShownUnlinkControl_whileEditing(removeProvided) ==
    removeProvided /\ Truthy(value) /\ ~isCreatingPage

ShownUnlinkControl(removeProvided) ==
    removeProvided /\ Truthy(value) /\ ~isEditingLink /\ ~isCreatingPage

\* Mutant: the text control follows the URL being typed.
ShowTextControl_draft(v, hasTextControl) ==
    GtZero(Length(Trim(currentUrlInputValue))) /\ hasTextControl

ShowTextControl(v, hasTextControl) ==
    GtZero(Length(Trim(Get(v, "url")))) /\ hasTextControl

\* Mutant: only the missing value is suppressed while creating.
shouldShowEditControls_precedence ==
    isEditingLink \/ (~Truthy(value) /\ ~isCreatingPage)

shouldShowEditControls == (isEditingLink \/ ~Truthy(value)) /\ ~isCreatingPage

\* Mutant: the preview stays while editing.
shouldShowLinkPreview_noEditing == Truthy(value) /\ ~isCreatingPage

shouldShowLinkPreview == Truthy(value) /\ ~isEditingLink /\ ~isCreatingPage

isLoading == isCreatingPage

\* Mutant: effects without a dependency array run after every render.
EffectRuns_always(mounting, prevDeps, nextDeps) == TRUE

\* Whether an effect runs after a render: always after the first one, and
\* afterwards when its dependencies changed.
EffectRuns(mounting, prevDeps, nextDeps) == mounting \/ nextDeps # prevDeps

\* Mutant: no isMounting guard.
FocusEffectFocuses_always(mounting) == TRUE

\* Whether a run of the focus effect gets past its isMounting guard.
FocusEffectFocuses(mounting) == ~mounting

\* The dependencies of the focus effect.
FocusDeps(editing, creating) == << editing, creating >>

\* The render that follows a handler or a change of props, and its effects.
\* editing and creating are the states the handler left; the effect of the
\* forced flag may set isEditingLink again, which renders a second time.
\* endingWithFocus is isEndingEditWithFocus.current as the handler left it.
Commit(editing, creating, endingWithFocus) ==
    LET forceRuns ==
            EffectRuns(isMounting, forceIsEditingLink, forceIsEditingLink')
        editing2 ==
            IF forceRuns THEN ForceEffect(forceIsEditingLink', editing) ELSE editing
        focusRuns1 ==
            EffectRuns(isMounting, FocusDeps(isEditingLink, isCreatingPage),
                       FocusDeps(editing, creating))
        focuses1 == focusRuns1 /\ FocusEffectFocuses(isMounting)
        focusRuns2 ==
            EffectRuns(FALSE, FocusDeps(editing, creating), FocusDeps(editing2, creating))
        focuses2 == focusRuns2 /\ FocusEffectFocuses(isMounting /\ ~focusRuns1)
        runs == (IF focuses1 THEN 1 ELSE 0) + (IF focuses2 THEN 1 ELSE 0)
    IN  /\ isEditingLink' = editing2
        /\ isCreatingPage' = creating
        /\ isMounting' = (isMounting /\ ~focusRuns1 /\ ~focusRuns2)
        /\ IF runs > 0
              THEN /\ \E hasTextInput \in BOOLEAN, n \in 0..MaxFocusable :
                         focusCalls' =
                             [i \in 1..runs |->
                                 [textInput |-> hasTextInput, focusable |-> n,
                                  target |-> NextFocusTarget(hasTextInput, n)]]
                   /\ isEndingEditWithFocus' = FALSE
              ELSE /\ focusCalls' = << >>
                   /\ isEndingEditWithFocus' = endingWithFocus

\* The drafts after a render with the (possibly new) value prop.
SyncDrafts(url, title) ==
    /\ internalUrlInputValue' = InternalInputValue(UrlProp(value), UrlProp(value'), url)
    /\ internalTextInputValue' =
           InternalInputValue(TitleProp(value), TitleProp(value'), title)

NoQuery == [rendered |-> FALSE]

IdleTotal == query = NoQuery /\ output = << >>

InitLink ==
    /\ value \in LinkValues \cup {Undefined}
    /\ forceIsEditingLink \in ForceFlags
    /\ propInputValue = EmptyStr
    /\ isMounting = TRUE
    /\ isEndingEditWithFocus = FALSE
    /\ isEditingLink = InitialIsEditingLink(forceIsEditingLink, value)
    /\ internalUrlInputValue = UrlProp(value)
    /\ internalTextInputValue = TitleProp(value)
    /\ isCreatingPage = FALSE
    /\ createPageErrorMessage = Null
    /\ lastOp = "render"
    /\ onChangeCalls = << >>
    /\ onRemoveCalls = 0
    /\ focusCalls = << >>

Init == InitLink /\ IdleTotal

\* ---------------------------------------------------- LinkControl: actions
SameProps == UNCHANGED << value, forceIsEditingLink, propInputValue >>

\* The effects of the first render.
Mount ==
    /\ isMounting
    /\ lastOp' = "mount"
    /\ SameProps
    /\ SyncDrafts(internalUrlInputValue, internalTextInputValue)
    /\ Commit(isEditingLink, isCreatingPage, isEndingEditWithFocus)
    /\ onChangeCalls' = << >>
    /\ onRemoveCalls' = 0
    /\ UNCHANGED << createPageErrorMessage, totalVars >>

\* The host renders the component with another value.
SetValue ==
    /\ ~isMounting
    /\ \E v \in LinkValues \cup {Undefined} : v # value /\ value' = v
    /\ lastOp' = "setValue"
    /\ UNCHANGED << forceIsEditingLink, propInputValue >>
    /\ SyncDrafts(internalUrlInputValue, internalTextInputValue)
    /\ Commit(isEditingLink, isCreatingPage, isEndingEditWithFocus)
    /\ onChangeCalls' = << >>
    /\ onRemoveCalls' = 0
    /\ UNCHANGED << createPageErrorMessage, totalVars >>

\* The host renders the component with another forceIsEditingLink.
SetForceIsEditingLink ==
    /\ ~isMounting
    /\ \E f \in ForceFlags : f # forceIsEditingLink /\ forceIsEditingLink' = f
    /\ lastOp' = "setForceIsEditingLink"
    /\ UNCHANGED << value, propInputValue >>
    /\ SyncDrafts(internalUrlInputValue, internalTextInputValue)
    /\ Commit(isEditingLink, isCreatingPage, isEndingEditWithFocus)
    /\ onChangeCalls' = << >>
    /\ onRemoveCalls' = 0
    /\ UNCHANGED << createPageErrorMessage, totalVars >>

\* setInternalUrlInputValue, as the user types in the URL input.
SetInternalUrlInputValue ==
    /\ ~isMounting
    /\ SameProps
    /\ \E s \in UrlStrings :
          /\ s # internalUrlInputValue
          /\ SyncDrafts(s, internalTextInputValue)
    /\ lastOp' = "setInternalUrlInputValue"
    /\ Commit(isEditingLink, isCreatingPage, isEndingEditWithFocus)
    /\ onChangeCalls' = << >>
    /\ onRemoveCalls' = 0
    /\ UNCHANGED << createPageErrorMessage, totalVars >>

\* setInternalTextInputValue, as the user types in the text input.
SetInternalTextInputValue ==
    /\ ~isMounting
    /\ SameProps
    /\ \E s \in TitleStrings :
          /\ s # internalTextInputValue
          /\ SyncDrafts(internalUrlInputValue, s)
    /\ lastOp' = "setInternalTextInputValue"
    /\ Commit(isEditingLink, isCreatingPage, isEndingEditWithFocus)
    /\ onChangeCalls' = << >>
    /\ onRemoveCalls' = 0
    /\ UNCHANGED << createPageErrorMessage, totalVars >>

\* Mutant: the title of the suggestion wins over the draft title.
SelectedValue_ownTitle(updatedValue, draftTitle) ==
    [updatedValue EXCEPT !.title = Or(Get(updatedValue, "title"), draftTitle)]

\* The argument handleSelectSuggestion passes to onChange.
SelectedValue(updatedValue, draftTitle) ==
    [updatedValue EXCEPT !.title = Or(draftTitle, Get(updatedValue, "title"))]

\* stopEditing records whether the wrapper contains the active element, which
\* is wherever the user left the focus, and sets isEditingLink to false.
HandleSelectSuggestion ==
    /\ ~isMounting
    /\ \E updatedValue \in Suggestions :
          onChangeCalls' = << SelectedValue(updatedValue, internalTextInputValue) >>
    /\ lastOp' = "handleSelectSuggestion"
    /\ SameProps
    /\ SyncDrafts(internalUrlInputValue, internalTextInputValue)
    /\ \E focusWithin \in BOOLEAN : Commit(FALSE, isCreatingPage, focusWithin)
    /\ onRemoveCalls' = 0
    /\ UNCHANGED << createPageErrorMessage, totalVars >>

\* Mutant: the submitted value carries the url only.
SubmittedValue_urlOnly(v, url, title) ==
    IF v.t = "object" THEN [v EXCEPT !.url = url] ELSE Obj(url, Undefined, Undefined)

\* { ...value, url, title }
SubmittedValue(v, url, title) ==
    IF v.t = "object"
        THEN [v EXCEPT !.url = url, !.title = title]
        ELSE Obj(url, title, Undefined)

\* Mutant: only the URL is compared.
SubmitHasChanges_urlOnly(v, url, title) == url # Get(v, "url")

\* The condition under which handleSubmit calls onChange.
SubmitHasChanges(v, url, title) ==
    url # Get(v, "url") \/ title # Get(v, "title")

HandleSubmit ==
    /\ ~isMounting
    /\ onChangeCalls' =
          IF SubmitHasChanges(value, currentUrlInputValue, internalTextInputValue)
              THEN << SubmittedValue(value, currentUrlInputValue,
                                     internalTextInputValue) >>
              ELSE << >>
    /\ lastOp' = "handleSubmit"
    /\ SameProps
    /\ SyncDrafts(internalUrlInputValue, internalTextInputValue)
    /\ \E focusWithin \in BOOLEAN : Commit(FALSE, isCreatingPage, focusWithin)
    /\ onRemoveCalls' = 0
    /\ UNCHANGED << createPageErrorMessage, totalVars >>

\* Mutant: the click toggles nothing.
EditClickState_noop(editing) == editing

\* onEditClick: setIsEditingLink( true )
EditClickState(editing) == TRUE

OnEditClick ==
    /\ ~isMounting
    /\ lastOp' = "onEditClick"
    /\ SameProps
    /\ SyncDrafts(internalUrlInputValue, internalTextInputValue)
    /\ Commit(EditClickState(isEditingLink), isCreatingPage, isEndingEditWithFocus)
    /\ onChangeCalls' = << >>
    /\ onRemoveCalls' = 0
    /\ UNCHANGED << createPageErrorMessage, totalVars >>

\* useCreatePage: createPage is called and the creation is in flight.
CreatePage ==
    /\ ~isMounting
    /\ ~isCreatingPage
    /\ lastOp' = "createPage"
    /\ SameProps
    /\ SyncDrafts(internalUrlInputValue, internalTextInputValue)
    /\ Commit(isEditingLink, TRUE, isEndingEditWithFocus)
    /\ createPageErrorMessage' = Null
    /\ onChangeCalls' = << >>
    /\ onRemoveCalls' = 0
    /\ UNCHANGED totalVars

\* Mutant: a settled creation ends the editing mode.
EditingAfterCreation_viewing(editing) == FALSE

\* useCreatePage holds isCreatingPage and errorMessage only: the editing mode
\* after a creation settled is the one before.
EditingAfterCreation(editing) == editing

\* Mutant: a failed creation leaves no message.
SettledErrorMessage_silent(failed, message) == message

\* useCreatePage: errorMessage once the creation settled.
SettledErrorMessage(failed, message) == IF failed THEN ErrorText ELSE message

\* useCreatePage: the creation in flight succeeds or fails.
CreatePageSettled ==
    /\ ~isMounting
    /\ isCreatingPage
    /\ \E failed \in BOOLEAN :
          /\ lastOp' = IF failed THEN "createPageFailed" ELSE "createPageDone"
          /\ createPageErrorMessage' =
                SettledErrorMessage(failed, createPageErrorMessage)
    /\ SameProps
    /\ SyncDrafts(internalUrlInputValue, internalTextInputValue)
    /\ Commit(EditingAfterCreation(isEditingLink), FALSE, isEndingEditWithFocus)
    /\ onChangeCalls' = << >>
    /\ onRemoveCalls' = 0
    /\ UNCHANGED totalVars

\* The unlink control of the preview is used: onRemove is called.
Unlink ==
    /\ ~isMounting
    /\ ShownUnlinkControl(TRUE)
    /\ lastOp' = "unlink"
    /\ SameProps
    /\ SyncDrafts(internalUrlInputValue, internalTextInputValue)
    /\ Commit(isEditingLink, isCreatingPage, isEndingEditWithFocus)
    /\ onChangeCalls' = << >>
    /\ onRemoveCalls' = 1
    /\ UNCHANGED << createPageErrorMessage, totalVars >>

NextLink ==
    \/ Mount
    \/ SetValue
    \/ SetForceIsEditingLink
    \/ SetInternalUrlInputValue
    \/ SetInternalTextInputValue
    \/ HandleSelectSuggestion
    \/ HandleSubmit
    \/ OnEditClick
    \/ CreatePage
    \/ CreatePageSettled
    \/ Unlink

Next == NextLink

Spec == Init /\ [][Next]_vars

\* ---------------------------------------------------- query-total: renderer
Digits == << "0", "1", "2", "3", "4", "5", "6", "7", "8", "9" >>

\* The decimal text PHP produces for an integer ('.' on an int, %d in sprintf).
RECURSIVE IntToString(_)
IntToString(n) ==
    IF n < 0 THEN "-" \o IntToString(-n)
    ELSE IF n < 10 THEN Digits[n + 1]
    ELSE IntToString(n \div 10) \o Digits[(n % 10) + 1]

Max(a, b) == IF a > b THEN a ELSE b

\* The page variable of the request is << >> when unset and << n >> when set.
\* Mutant: the inherited page is taken as it comes.
InheritedPage_unclamped(paged) == IF paged = << >> THEN 1 ELSE paged[1]

\* $current_page of the inherited query: max( 1, get_query_var( 'paged', 1 ) )
InheritedPage(paged) == Max(1, IF paged = << >> THEN 1 ELSE paged[1])

\* $current_page of a custom query: isset( $_GET[ $page_key ] ) ? (int) ... : 1
CustomPage(paged) == IF paged = << >> THEN 1 ELSE paged[1]

CurrentPage(q) == IF q.inherit THEN InheritedPage(q.paged) ELSE CustomPage(q.paged)

RangeStart(current_page, posts_per_page) == (current_page - 1) * posts_per_page + 1

\* Mutant: the end of the range is not capped by the total.
RangeEnd_uncapped(start, posts_per_page, max_rows) == start + posts_per_page - 1

RangeEnd(start, posts_per_page, max_rows) == Min(start + posts_per_page - 1, max_rows)

\* Stands for the character U+2013 of the translatable text.
EnDash == "u2013"

Strong(text) == << "<strong>", text, "</strong>" >>

\* $range_text of the 'range-display' case, as the pieces sprintf joins.
RangeText(start, end, max_rows) ==
    IF start = end
        THEN << "Displaying " >> \o Strong(IntToString(start)) \o << " of " >>
                 \o Strong(IntToString(max_rows))
        ELSE << "Displaying " >> \o Strong(IntToString(start)) \o << " ", EnDash, " " >>
                 \o Strong(IntToString(end)) \o << " of " >>
                 \o Strong(IntToString(max_rows))

\* Mutant: zero takes the singular.
TranslatePlural_zeroSingular(single, plural, number) ==
    IF number <= 1 THEN single ELSE plural

\* _n( $single, $plural, $number ) without a translation
TranslatePlural(single, plural, number) == IF number = 1 THEN single ELSE plural

\* $output of the 'total-results' and default cases.
TotalText(max_rows) ==
    Strong(IntToString(max_rows))
        \o << " ", TranslatePlural("result found", "results found", max_rows) >>

Paragraph(pieces) == << "<p>" >> \o pieces \o << "</p>" >>

WrapperAttributes == "class=\"wp-block-query-total\""

\* render_block_core_query_total
RenderQueryTotal(q) ==
    LET current_page == CurrentPage(q)
        max_rows == q.found_posts
        posts_per_page == q.posts_per_page
        start == RangeStart(current_page, posts_per_page)
        end == RangeEnd(start, posts_per_page, max_rows)
        inner ==
            IF q.displayType = "range-display"
                THEN Paragraph(RangeText(start, end, max_rows))
                ELSE Paragraph(TotalText(max_rows))
    IN  << "<div ", WrapperAttributes, ">" >> \o inner \o << "</div>" >>

Queries ==
    [ rendered : {TRUE},
      inherit : BOOLEAN,
      paged : { << >> } \cup { << n >> : n \in -1..MaxPage },
      found_posts : 0..MaxFound,
      posts_per_page : -1..MaxPerPage,
      displayType : { "range-display", "total-results", "date" } ]

\* The component is not in use while blocks are rendered on the server.
IdleLink ==
    /\ value = Undefined
    /\ forceIsEditingLink = Undefined
    /\ propInputValue = EmptyStr
    /\ isMounting = TRUE
    /\ isEndingEditWithFocus = FALSE
    /\ isEditingLink = InitialIsEditingLink(Undefined, Undefined)
    /\ internalUrlInputValue = EmptyStr
    /\ internalTextInputValue = EmptyStr
    /\ isCreatingPage = FALSE
    /\ createPageErrorMessage = Null
    /\ lastOp = "render"
    /\ onChangeCalls = << >>
    /\ onRemoveCalls = 0
    /\ focusCalls = << >>

InitTotal == IdleLink /\ query = NoQuery /\ output = << >>

\* A request for a page holding the block arrives.
Request ==
    /\ query = NoQuery \/ output # << >>
    /\ query' \in Queries
    /\ output' = << >>
    /\ UNCHANGED linkVars

\* The block is rendered for the request.
Render ==
    /\ query # NoQuery
    /\ output = << >>
    /\ output' = RenderQueryTotal(query)
    /\ UNCHANGED << query, linkVars >>

NextTotal == Request \/ Render

SpecTotal == InitTotal /\ [][NextTotal]_vars

\* ------------------------------------------------------------------ claims
\* The value has no URL: it is absent, or its url is missing or empty.
HasNoUrl(v) == v = Undefined \/ Get(v, "url") \in { Undefined, EmptyStr }

\* C1 (as stated): at mount the mode is Editing exactly when no forced mode is
\* given and the value is absent or has an empty or missing url.
C1_InitialModeIgnoringForce ==
    isMounting =>
        (isEditingLink <=> (forceIsEditingLink = Undefined /\ HasNoUrl(value)))

\* C1 (amended): at mount the mode is the forced mode when one is given, and
\* otherwise Editing exactly when the value is absent or has an empty or
\* missing url.
C1_InitialMode ==
    isMounting =>
        (isEditingLink <=>
            IF forceIsEditingLink = Undefined
                THEN HasNoUrl(value)
                ELSE forceIsEditingLink = Bool(TRUE))

C1_Witness ==
    /\ isMounting
    /\ forceIsEditingLink = Bool(TRUE)
    /\ ~HasNoUrl(value)
    /\ isEditingLink

\* The drafts hold what they were initialised to from the committed value.
DraftsAsCommitted ==
    /\ currentUrlInputValue = UrlProp(value)
    /\ internalTextInputValue = TitleProp(value)

\* C2: handleSubmit with drafts that are those of the committed value (as when
\* neither draft was edited since it was initialised from it) calls onChange
\* not at all, and leaves isEditingLink false.
C2_UnchangedSubmitIsSilent ==
    [][(lastOp' = "handleSubmit" /\ DraftsAsCommitted)
          => (onChangeCalls' = << >> /\ ~isEditingLink')]_vars

\* The draft URL or the draft title differs from the committed one.
DraftsDiffer ==
    \/ currentUrlInputValue # Get(value, "url")
    \/ internalTextInputValue # Get(value, "title")

\* C3: handleSubmit in Editing mode with a draft URL or title that differs
\* from the committed one calls onChange exactly once, with the draft URL, the
\* draft title and the other properties of the committed value, and the mode
\* is Viewing afterwards.
C3_ChangedSubmitCommits ==
    [][(lastOp' = "handleSubmit" /\ isEditingLink /\ DraftsDiffer)
          => /\ onChangeCalls' =
                  << Obj(currentUrlInputValue, internalTextInputValue,
                         Get(value, "id")) >>
             /\ ~isEditingLink']_vars

C3_Witness ==
    /\ lastOp = "handleSubmit"
    /\ Len(onChangeCalls) = 1
    /\ onChangeCalls[1].id = Num(1)
    /\ onChangeCalls[1].title # Get(value, "title")
    /\ Len(focusCalls) = 1
    /\ ~isEditingLink

\* C4: handleSelectSuggestion in Editing mode calls onChange exactly once, with
\* a suggestion whose title is replaced by the draft title when that is not
\* empty, and the mode is Viewing afterwards.
C4_SelectCommitsSuggestion ==
    [][(lastOp' = "handleSelectSuggestion" /\ isEditingLink)
          => /\ \E sugg \in Suggestions :
                  onChangeCalls' =
                      << Obj(sugg.url,
                             IF internalTextInputValue # EmptyStr
                                 THEN internalTextInputValue
                                 ELSE sugg.title,
                             sugg.id) >>
             /\ ~isEditingLink']_vars

C4_Witness ==
    /\ lastOp = "handleSelectSuggestion"
    /\ Len(onChangeCalls) = 1
    /\ onChangeCalls[1].title = Str(<<"t">>)
    /\ onChangeCalls[1].id = Num(2)
    /\ Len(focusCalls) = 1
    /\ ~isEditingLink

\* C5: a forceIsEditingLink of true or false is the mode at mount, and becomes
\* the mode whenever the flag changes to true or false, without a call of
\* onChange or onRemove; a flag that becomes undefined leaves the mode alone.
C5_ForcedModeIsApplied ==
    /\ [](isMounting /\ forceIsEditingLink # Undefined
             => isEditingLink = (forceIsEditingLink = Bool(TRUE)))
    /\ [][lastOp' = "setForceIsEditingLink"
             => /\ forceIsEditingLink' # Undefined
                    => isEditingLink' = (forceIsEditingLink' = Bool(TRUE))
                /\ forceIsEditingLink' = Undefined
                    => isEditingLink' = isEditingLink
                /\ onChangeCalls' = << >>
                /\ onRemoveCalls' = 0]_vars

C5_Witness ==
    /\ lastOp = "setForceIsEditingLink"
    /\ forceIsEditingLink = Bool(FALSE)
    /\ ~isEditingLink
    /\ isCreatingPage
    /\ Len(focusCalls) = 1

\* The committed url has a character that is not a space.
HasNonBlankUrl(v) ==
    /\ v # Undefined
    /\ v.url # Undefined
    /\ \E i \in 1..Len(v.url.s) : v.url.s[i] # " "

\* C6: showTextControl is true exactly when the committed url has a character
\* other than white space and hasTextControl is set, whatever the drafts are.
C6_ShowTextControlNeedsCommittedUrl ==
    \A hasTextControl \in BOOLEAN :
        ShowTextControl(value, hasTextControl)
            <=> (hasTextControl /\ HasNonBlankUrl(value))

C6_Witness ==
    /\ ~isMounting
    /\ Get(value, "url") = Str(<<" ">>)
    /\ currentUrlInputValue = Str(<<"a">>)
    /\ ~ShowTextControl(value, TRUE)

\* C7: the focus effect does not move focus at mount, and afterwards moves it
\* once in every step that changes isEditingLink or isCreatingPage and in no
\* other step.
C7_FocusOncePerTransition ==
    [][Len(focusCalls') =
          IF /\ ~isMounting
             /\ \/ isEditingLink' # isEditingLink
                \/ isCreatingPage' # isCreatingPage
              THEN 1
              ELSE 0]_vars

C7_Witness ==
    /\ lastOp = "createPageDone"
    /\ ~isCreatingPage
    /\ Len(focusCalls) = 1

\* C8: the focus effect focuses the focusable descendant of the wrapper at
\* index 1 with a text input and at index 0 without, and the wrapper when
\* there is no such descendant: always a node of the widget.
C8_FocusStaysInWidget ==
    \A i \in 1..Len(focusCalls) :
        LET call == focusCalls[i]
            index == IF call.textInput THEN 1 ELSE 0
        IN  /\ call.target \in {WrapperNode} \cup 1..call.focusable
            /\ index < call.focusable => call.target = index + 1
            /\ index >= call.focusable => call.target = WrapperNode

C8_Witness ==
    \E i \in 1..Len(focusCalls) :
        /\ focusCalls[i].textInput
        /\ focusCalls[i].focusable = 1
        /\ focusCalls[i].target = WrapperNode

\* The text of the output: its pieces other than tags and attributes.
IsMarkup(piece) ==
    piece \in { "<div ", WrapperAttributes, ">", "</div>", "<p>", "</p>",
                "<strong>", "</strong>" }

TextOf(pieces) == SelectSeq(pieces, LAMBDA piece : ~IsMarkup(piece))

RangeQuery(page, perPage, found) ==
    [ rendered |-> TRUE, inherit |-> FALSE, paged |-> << page >>,
      found_posts |-> found, posts_per_page |-> perPage,
      displayType |-> "range-display" ]

\* C9: for "range-display" the text is "Displaying {start} of {total}" when
\* start = end and "Displaying {start} - {end} of {total}" otherwise, with
\* start = (current_page - 1) * posts_per_page + 1 and
\* end = min(start + posts_per_page - 1, found_posts).
C9_RangeDisplay ==
    /\ (output # << >> /\ query.displayType = "range-display") =>
          LET start == (CurrentPage(query) - 1) * query.posts_per_page + 1
              last == start + query.posts_per_page - 1
              end == IF last < query.found_posts THEN last ELSE query.found_posts
          IN  TextOf(output) =
                  IF start = end
                      THEN << "Displaying ", IntToString(start), " of ",
                              IntToString(query.found_posts) >>
                      ELSE << "Displaying ", IntToString(start), " ", EnDash, " ",
                              IntToString(end), " of ",
                              IntToString(query.found_posts) >>
    /\ TextOf(RenderQueryTotal(RangeQuery(1, 10, 25)))
          = << "Displaying ", "1", " ", EnDash, " ", "10", " of ", "25" >>
    /\ TextOf(RenderQueryTotal(RangeQuery(3, 10, 25)))
          = << "Displaying ", "21", " ", EnDash, " ", "25", " of ", "25" >>
    /\ TextOf(RenderQueryTotal(RangeQuery(1, 1, 1)))
          = << "Displaying ", "1", " of ", "1" >>

C9_Witness ==
    /\ query # NoQuery
    /\ query.displayType = "range-display"
    /\ query.posts_per_page = 2
    /\ query.found_posts = 3
    /\ TextOf(output) = << "Displaying ", "3", " of ", "3" >>

\* C10: for every displayType but "range-display" the text is
\* "{total} result found" when found_posts is 1 and "{total} results found"
\* otherwise, whatever the page and the page size.
C10_TotalResults ==
    (output # << >> /\ query.displayType # "range-display") =>
        TextOf(output) =
            << IntToString(query.found_posts), " ",
               IF query.found_posts = 1 THEN "result found" ELSE "results found" >>

C10_Witness ==
    /\ query # NoQuery
    /\ query.displayType = "date"
    /\ query.found_posts = 0
    /\ query.paged = << 2 >>
    /\ TextOf(output) = << "0", " ", "results found" >>

C12_CreatingSuppressesUi ==
    isCreatingPage =>
        /\ ~shouldShowEditControls
        /\ ~shouldShowLinkPreview
        /\ \A removeProvided \in BOOLEAN : ~ShownUnlinkControl(removeProvided)
        /\ isLoading

C12_Witness ==
    /\ lastOp = "createPage"
    /\ isCreatingPage
    /\ isEditingLink
    /\ value # Undefined

\* C13: the beginning and the end of a creation, successful or not, leave
\* isEditingLink and both drafts as they were and call neither onChange nor
\* onRemove.
C13_CreationKeepsMode ==
    [][lastOp' \in { "createPage", "createPageDone", "createPageFailed" }
          => /\ isCreatingPage' # isCreatingPage
             /\ isEditingLink' = isEditingLink
             /\ internalUrlInputValue' = internalUrlInputValue
             /\ internalTextInputValue' = internalTextInputValue
             /\ onChangeCalls' = << >>
             /\ onRemoveCalls' = 0]_vars

C13_Witness ==
    /\ lastOp = "createPageFailed"
    /\ isEditingLink
    /\ forceIsEditingLink = Bool(FALSE)
    /\ internalUrlInputValue # UrlProp(value)
    /\ ~isCreatingPage

\* C14: onEditClick in Viewing mode sets Editing mode, calls neither onChange
\* nor onRemove, and leaves the committed value, both drafts and the creation
\* state as they were.
C14_EditClickOnlyEdits ==
    [][(lastOp' = "onEditClick" /\ ~isEditingLink)
          => /\ isEditingLink'
             /\ onChangeCalls' = << >>
             /\ onRemoveCalls' = 0
             /\ UNCHANGED << value, internalUrlInputValue, internalTextInputValue,
                             isCreatingPage, createPageErrorMessage >>]_vars

C14_Witness ==
    /\ lastOp = "onEditClick"
    /\ isEditingLink
    /\ Len(focusCalls) = 1
    /\ value # Undefined
    /\ internalTextInputValue # TitleProp(value)

\* The committed url or title as a string: the empty string when it is absent.
CommittedText(v, f) == IF Truthy(Get(v, f)) THEN Get(v, f) ELSE EmptyStr

\* C15 as stated: whenever the host changes the committed url (or title), the
\* draft url (or title) is afterwards the new committed one, or the empty
\* string when that is absent.
C15_ResetOnAnyChange ==
    [][lastOp' = "setValue"
          => /\ Get(value', "url") # Get(value, "url")
                   => internalUrlInputValue' = CommittedText(value', "url")
             /\ Get(value', "title") # Get(value, "title")
                   => internalTextInputValue' = CommittedText(value', "title")]_vars

\* C15: whenever the host changes the committed url (or title) read as a
\* string, absent being the empty string, the draft url (or title) is
\* afterwards that string whatever it was before; otherwise a draft changes
\* only through the user's input in its field.
C15_ResetOnTextChange ==
    [][/\ (lastOp' = "setValue"
              /\ CommittedText(value', "url") # CommittedText(value, "url"))
          => internalUrlInputValue' = CommittedText(value', "url")
       /\ (lastOp' = "setValue"
              /\ CommittedText(value', "title") # CommittedText(value, "title"))
          => internalTextInputValue' = CommittedText(value', "title")
       /\ internalUrlInputValue' # internalUrlInputValue
          => \/ lastOp' = "setInternalUrlInputValue"
             \/ /\ lastOp' = "setValue"
                /\ CommittedText(value', "url") # CommittedText(value, "url")
       /\ internalTextInputValue' # internalTextInputValue
          => \/ lastOp' = "setInternalTextInputValue"
             \/ /\ lastOp' = "setValue"
                /\ CommittedText(value', "title") # CommittedText(value, "title")]_vars

\* The host set a value with url 'a' and no title: the url draft is 'a' and
\* the title draft is still what the user typed.
C15_Witness ==
    /\ lastOp = "setValue"
    /\ Get(value, "url") = Str(<< "a" >>)
    /\ internalUrlInputValue = Str(<< "a" >>)
    /\ Get(value, "title") = Undefined
    /\ internalTextInputValue = Str(<< "t" >>)

\* C16: the unlink control is shown exactly when onRemove is provided, a
\* committed value exists, the editor is not editing and no creation is in
\* progress; it is shown only with the link preview and never with the edit
\* controls.
C16_UnlinkOnlyWithPreview ==
    \A removeProvided \in BOOLEAN :
        /\ ShownUnlinkControl(removeProvided)
              <=> /\ removeProvided
                  /\ value # Undefined
                  /\ ~isEditingLink
                  /\ ~isCreatingPage
        /\ ShownUnlinkControl(removeProvided)
              => (shouldShowLinkPreview /\ ~shouldShowEditControls)

C16_Witness ==
    /\ lastOp = "handleSubmit"
    /\ ShownUnlinkControl(TRUE)
    /\ ~ShownUnlinkControl(FALSE)
    /\ shouldShowLinkPreview

\* C17: the edit controls and the link preview are never both shown; when no
\* creation is in progress exactly one of them is, the edit controls when
\* editing or when there is no committed value and the preview otherwise.
C17_OneUiOutsideCreation ==
    /\ ~(shouldShowEditControls /\ shouldShowLinkPreview)
    /\ ~isCreatingPage
          => /\ shouldShowEditControls # shouldShowLinkPreview
             /\ shouldShowEditControls <=> (isEditingLink \/ value = Undefined)
             /\ shouldShowLinkPreview <=> ~(isEditingLink \/ value = Undefined)

C17_Witness ==
    /\ lastOp = "createPageDone"
    /\ ~isEditingLink
    /\ value = Undefined
    /\ shouldShowEditControls
    /\ ~shouldShowLinkPreview

\* C18: while forceIsEditingLink keeps its value, the user's transitions take
\* effect whatever the flag is (edit click sets Editing, submit and suggestion
\* selection set Viewing), and no other step, the effects of the first render
\* and a re-render with another value or draft included, changes the mode: the mode follows the flag only on the
\* step that changes it.
C18_ForceOnlyWhenChanged ==
    [][/\ lastOp' = "onEditClick" => isEditingLink'
       /\ lastOp' \in { "handleSubmit", "handleSelectSuggestion" } => ~isEditingLink'
       /\ lastOp' \notin { "onEditClick", "handleSubmit", "handleSelectSuggestion",
                           "setForceIsEditingLink" }
             => isEditingLink' = isEditingLink
       /\ lastOp' = "setForceIsEditingLink"
             => isEditingLink' = IF forceIsEditingLink' = Undefined
                                     THEN isEditingLink
                                     ELSE Truthy(forceIsEditingLink')
       /\ lastOp' # "setForceIsEditingLink"
             => forceIsEditingLink' = forceIsEditingLink]_vars

\* The mode differs from the flag after a re-render that kept the flag.
C18_Witness ==
    /\ lastOp = "setValue"
    /\ forceIsEditingLink = Bool(FALSE)
    /\ isEditingLink

\* The committed value holds exactly the strings the submit compares.
DraftsCommitted ==
    /\ value # Undefined
    /\ Get(value, "url") = currentUrlInputValue
    /\ Get(value, "title") = internalTextInputValue

\* C19: once the host applied the value a submit passed to onChange, the
\* committed url and title are the drafts; this lasts until the host or the
\* user changes one of them, across leaving and re-entering Editing, and
\* while it lasts no submit calls onChange.
C19_SubmitIsIdempotent ==
    [][/\ (/\ lastOp = "handleSubmit"
           /\ Len(onChangeCalls) = 1
           /\ lastOp' = "setValue"
           /\ value' = onChangeCalls[1])
          => DraftsCommitted'
       /\ (/\ DraftsCommitted
           /\ lastOp' \notin { "setValue", "setInternalUrlInputValue",
                               "setInternalTextInputValue" })
          => DraftsCommitted'
       /\ (DraftsCommitted /\ lastOp' = "handleSubmit")
          => onChangeCalls' = << >>]_vars

\* A second submit after the first one was applied and Editing re-entered.
C19_Witness ==
    /\ lastOp = "handleSubmit"
    /\ DraftsCommitted
    /\ onChangeCalls = << >>
    /\ internalUrlInputValue = Str(<< "a" >>)
    /\ internalTextInputValue = Str(<< "t" >>)
    /\ forceIsEditingLink = Undefined

\* The range of a rendered request is well formed when its page is at least
\* 1, its page size at least 1 and the page lies within the results.
RangeWellFormed ==
    output # << >> =>
        LET current_page == CurrentPage(query)
            posts_per_page == query.posts_per_page
            max_rows == query.found_posts
            start == RangeStart(current_page, posts_per_page)
            end == RangeEnd(start, posts_per_page, max_rows)
        IN  (/\ current_page >= 1
             /\ posts_per_page >= 1
             /\ (current_page - 1) * posts_per_page < max_rows)
                => /\ 1 <= start
                   /\ start <= end
                   /\ end <= max_rows
                   /\ end - start + 1 <= posts_per_page

\* C20 as stated: the range is well formed under the three conditions, and
\* in the inherited branch current_page >= 1 and start >= 1 for any request.
C20_InheritedStartAlwaysPositive ==
    /\ RangeWellFormed
    /\ (output # << >> /\ query.inherit)
          => /\ CurrentPage(query) >= 1
             /\ RangeStart(CurrentPage(query), query.posts_per_page) >= 1

\* C20: the range is well formed under the three conditions; in the inherited
\* branch current_page >= 1 for any paged variable, start >= 1 when
\* posts_per_page >= 0, and start = 1 - (current_page - 1) when posts_per_page
\* is -1, which is below 1 from page 2 on.
C20_RangeWellFormed ==
    /\ RangeWellFormed
    /\ (output # << >> /\ query.inherit)
          => LET current_page == CurrentPage(query)
                 start == RangeStart(current_page, query.posts_per_page)
             IN  /\ current_page >= 1
                 /\ current_page =
                       IF query.paged = << >> \/ query.paged[1] < 1
                           THEN 1 ELSE query.paged[1]
                 /\ query.posts_per_page >= 0 => start >= 1
                 /\ query.posts_per_page = -1 => start = 2 - current_page

\* An inherited query with a negative page variable is rendered as page 1.
C20_Witness ==
    /\ query # NoQuery
    /\ query.inherit
    /\ query.paged = << -1 >>
    /\ query.posts_per_page = 2
    /\ query.found_posts = 3
    /\ query.displayType = "range-display"
    /\ TextOf(output) = << "Displaying ", "1", " ", EnDash, " ", "2", " of ", "3" >>

====
